---- MODULE Spec2Model ----
(***************************************************************************)
(* Real-time interaction and physics core of the greek-vases gallery:      *)
(* the player controller (usePlayerControls), the vase manager             *)
(* (useVaseManager), the shard manager (useShardManager) and the frame     *)
(* tick (animate) of the GreekVases component.                             *)
(*                                                                         *)
(* Fixed-point units: lengths and linear velocities in 1e-4 world units,   *)
(* angles in milliradians, screen coordinates in CSS pixels, time in ms,   *)
(* normalized device coordinates in 1e-3.                                  *)
(***************************************************************************)
EXTENDS Integers, Sequences, FiniteSets, TLC

NULL == "null"

\* ------------------------------------------------------------------ bounds
MaxFrames == 3          \* kinematics updates explored by SpecKin
MaxJumpFrames == 60     \* kinematics updates explored by SpecJump / SpecFall
MaxYaw == 800           \* |yaw| explored, milliradians
MaxTime == 300          \* clock horizon, ms

\* --------------------------------------------------------------- constants
JUMP_STRENGTH == 1800
GRAVITY == 70
MOVE_SPEED == 1500
TOUCH_ROTATE_SENSITIVITY == 5
JOYSTICK_ROTATE_SENSITIVITY == 1
MOUSE_SENSITIVITY == 2
HALF_PI == 1571
cameraHeight == 25000
xMin == -95000
xMax == 95000
zMin == -145000
zMax == 145000

\* -------------------------------------------------------------- arithmetic
Abs(a) == IF a < 0 THEN -a ELSE a
Min(a, b) == IF a < b THEN a ELSE b
Max(a, b) == IF a > b THEN a ELSE b

\* division of a signed value by a positive one, rounding toward zero
Div(a, b) == IF a >= 0 THEN a \div b ELSE -((-a) \div b)

RECURSIVE SqrtSearch(_, _, _)
SqrtSearch(n, lo, hi) ==
  IF lo >= hi THEN lo
  ELSE LET mid == (lo + hi + 1) \div 2
       IN IF mid * mid <= n THEN SqrtSearch(n, mid, hi)
                            ELSE SqrtSearch(n, lo, mid - 1)

\* floor of the square root (Math.sqrt on the fixed-point grid)
ISqrt(n) == SqrtSearch(n, 0, Min(n, 46340))

\* sine and cosine of an angle in [0, pi/2] milliradians, scaled by 1000
SinP(x) ==
  LET x2 == (x * x) \div 1000
      x3 == (x2 * x) \div 1000
      x5 == (x3 * x2) \div 1000
      x7 == (x5 * x2) \div 1000
  IN x - (x3 \div 6) + (x5 \div 120) - (x7 \div 5040)

CosP(x) ==
  LET x2 == (x * x) \div 1000
      x4 == (x2 * x2) \div 1000
      x6 == (x4 * x2) \div 1000
      x8 == (x6 * x2) \div 1000
  IN 1000 - (x2 \div 2) + (x4 \div 24) - (x6 \div 720) + (x8 \div 40320)

Wrap(x) == ((x + 3142) % 6284) - 3142

Sin(a) ==
  LET x == Wrap(a)
      m == Abs(x)
      s == IF m > HALF_PI THEN SinP(3142 - m) ELSE SinP(m)
  IN IF x < 0 THEN -s ELSE s

Cos(a) ==
  LET m == Abs(Wrap(a))
  IN IF m > HALF_PI THEN -CosP(3142 - m) ELSE CosP(m)

\* Vector3.applyEuler(new Euler(0, yaw, 0, "YXZ")) on (vx, 0, vz)
applyEuler(vx, vz, yaw) ==
  << Div(vx * Cos(yaw) + vz * Sin(yaw), 1000),
     Div(vz * Cos(yaw) - vx * Sin(yaw), 1000) >>

Num(b) == IF b THEN 1 ELSE 0

\* ------------------------------------------------------------------- state
VARIABLES
  camera,               \* cameraRef.current.position: [x, y, z]
  player,               \* playerStateRef.current
  joystickMoveVector,   \* joystickMoveVectorRef.current: <<x, y>>
  joystickCenter,       \* joystick geometry state: NULL or <<x, y>>
  joystickRadius,
  touch,                \* touchActiveRef, touchStartRef, touchInitialPosRef,
                        \* touchStartTimeRef, touchMovedRef, isJoystickTouchRef
  isPointerLocked,
  isTouchControlActive,
  now,                  \* Date.now()
  hitboxes,             \* hitboxesRef.current (a hitbox is named by its vase)
  vases,                \* vasesRef.current
  brokenVasesSet,
  brokenVasesCount,
  shards,               \* shardsRef.current
  frames,               \* number of updatePlayerPosition calls so far
  lastOp,               \* the handler that ran last
  log,                  \* history of the vase manager: break events, spawns, aims
  session,              \* history of the current touch session
  outline,              \* the vases last handed to setOutlineObjects
  scene,                \* sceneRef.current and cameraRef.current are set
  listeners,            \* the event listeners currently attached
  frameRequested,       \* a requestAnimationFrame callback is pending
  rendered,             \* what the last frame's render call drew
  fingers,              \* the fingers on the screen, and the one that landed
                        \* on the empty screen
  sceneSetup            \* useSceneSetup: mountRef.current is set, the effect
                        \* is active, resizeObserver observes,
                        \* isInitializedRef, rendererRef is set,
                        \* cleanupFuncRef, initializationStatus and the
                        \* setInitializationStatus calls not yet rendered

playerVars == << camera, player >>
touchVars == << joystickMoveVector, touch, isTouchControlActive >>
geomVars == << joystickCenter, joystickRadius >>
vaseVars == << hitboxes, vases, brokenVasesSet, brokenVasesCount >>
sysVars == << scene, listeners, frameRequested, fingers, sceneSetup >>
vars == << camera, player, joystickMoveVector, joystickCenter, joystickRadius,
           touch, isPointerLocked, isTouchControlActive, now, hitboxes, vases,
           brokenVasesSet, brokenVasesCount, shards, frames, lastOp, log,
           session, outline, scene, listeners, frameRequested, rendered,
           fingers, sceneSetup >>

Flags(p) == << p.moveForward, p.moveBackward, p.moveLeft, p.moveRight >>

\* ------------------------------------------------------ keyboard and mouse
KeyCodes == {"KeyW", "KeyS", "KeyA", "KeyD", "Space"}

\* variant: Space sets the jump impulse whether or not the player is on the
\* ground
handleKeyDown_AirJump(code) ==
  /\ "keydown" \in listeners
  /\ code \in KeyCodes
  /\ player' =
       IF ~isPointerLocked THEN player
       ELSE CASE code = "KeyW" -> [player EXCEPT !.moveForward = TRUE]
              [] code = "KeyS" -> [player EXCEPT !.moveBackward = TRUE]
              [] code = "KeyA" -> [player EXCEPT !.moveLeft = TRUE]
              [] code = "KeyD" -> [player EXCEPT !.moveRight = TRUE]
              [] code = "Space" ->
                   [player EXCEPT !.velocityY = JUMP_STRENGTH,
                                  !.isOnGround = FALSE]
  /\ lastOp' = << "keydown", code >>
  /\ UNCHANGED << camera, touchVars, geomVars, isPointerLocked, now, vaseVars,
                  shards, frames, log, session, outline, sysVars, rendered >>

handleKeyDown(code) ==
  /\ "keydown" \in listeners
  /\ code \in KeyCodes
  /\ player' =
       IF ~isPointerLocked THEN player
       ELSE CASE code = "KeyW" -> [player EXCEPT !.moveForward = TRUE]
              [] code = "KeyS" -> [player EXCEPT !.moveBackward = TRUE]
              [] code = "KeyA" -> [player EXCEPT !.moveLeft = TRUE]
              [] code = "KeyD" -> [player EXCEPT !.moveRight = TRUE]
              [] code = "Space" ->
                   IF player.isOnGround
                   THEN [player EXCEPT !.velocityY = JUMP_STRENGTH,
                                       !.isOnGround = FALSE]
                   ELSE player
  /\ lastOp' = << "keydown", code >>
  /\ UNCHANGED << camera, touchVars, geomVars, isPointerLocked, now, vaseVars,
                  shards, frames, log, session, outline, sysVars, rendered >>

\* variant: a key-up is ignored without the pointer lock, as a key-down is
handleKeyUp_Gated(code) ==
  /\ "keyup" \in listeners
  /\ code \in KeyCodes
  /\ player' =
       IF ~isPointerLocked THEN player
       ELSE CASE code = "KeyW" -> [player EXCEPT !.moveForward = FALSE]
              [] code = "KeyS" -> [player EXCEPT !.moveBackward = FALSE]
              [] code = "KeyA" -> [player EXCEPT !.moveLeft = FALSE]
              [] code = "KeyD" -> [player EXCEPT !.moveRight = FALSE]
              [] OTHER -> player
  /\ lastOp' = << "keyup", code >>
  /\ UNCHANGED << camera, touchVars, geomVars, isPointerLocked, now, vaseVars,
                  shards, frames, log, session, outline, sysVars, rendered >>

handleKeyUp(code) ==
  /\ "keyup" \in listeners
  /\ code \in KeyCodes
  /\ player' =
       CASE code = "KeyW" -> [player EXCEPT !.moveForward = FALSE]
         [] code = "KeyS" -> [player EXCEPT !.moveBackward = FALSE]
         [] code = "KeyA" -> [player EXCEPT !.moveLeft = FALSE]
         [] code = "KeyD" -> [player EXCEPT !.moveRight = FALSE]
         [] OTHER -> player
  /\ lastOp' = << "keyup", code >>
  /\ UNCHANGED << camera, touchVars, geomVars, isPointerLocked, now, vaseVars,
                  shards, frames, log, session, outline, sysVars, rendered >>

\* variant: the value is passed through
Clamp_None(lo, hi, v) == v

Clamp(lo, hi, v) == Max(lo, Min(hi, v))

\* variant: the pointer lock is not looked at
MouseIgnored_NoLockCheck == ~scene \/ touch.active

\* the early return of handleMouseMove
MouseIgnored == ~isPointerLocked \/ ~scene \/ touch.active

handleMouseMove(movementX, movementY) ==
  /\ "mousemove" \in listeners
  /\ player' =
       IF MouseIgnored THEN player
       ELSE [player EXCEPT
               !.rotY = player.rotY - movementX * MOUSE_SENSITIVITY,
               !.rotX = Clamp(-HALF_PI, HALF_PI,
                              player.rotX - movementY * MOUSE_SENSITIVITY)]
  /\ Abs(player'.rotY) <= MaxYaw
  /\ lastOp' = << "mousemove", movementX, movementY >>
  /\ UNCHANGED << camera, touchVars, geomVars, isPointerLocked, now, vaseVars,
                  shards, frames, log, session, outline, sysVars, rendered >>

NumVases == 2           \* vases on pedestals (the gallery creates ten)

Vases == 1..NumVases

\* variant: the outline list is left as it is
refreshOutlines_Skip(current, vs) == current

\* refreshOutlines: setOutlineObjects([...vasesRef.current, ...pedestals]),
\* skipped while the scene is not ready; vs is vasesRef.current
refreshOutlines(current, vs) == IF scene THEN vs ELSE current

\* the vase effect of useVaseManager. Its dependency onVasesCreated is a new
\* function in every render of the component, so that every render runs the
\* effect's cleanup and then the effect again: all pedestals, vases and
\* hitboxes are created anew, the broken set is emptied and onVasesCreated
\* refreshes the outlines. The history of break events is kept per vase
\* object and starts afresh with the new objects.
createVases ==
  /\ hitboxes' = Vases
  /\ vases' = Vases
  /\ brokenVasesSet' = {}
  /\ outline' = refreshOutlines(outline, Vases)
  /\ log' = [log EXCEPT !.breakEvents = [v \in Vases |-> 0],
                        !.aimed = [v \in Vases |-> 0]]
  /\ UNCHANGED brokenVasesCount

\* mount "click" listener: the lock is only ever requested here, when no
\* touch control is active and the pointer is not locked yet; the browser
\* answers with "pointerlockchange", whose handler sets the isPointerLocked
\* state and so renders the component again.
handleMountClick ==
  /\ "mountclick" \in listeners
  /\ ~isTouchControlActive
  /\ ~isPointerLocked
  /\ IF scene /\ "pointerlockchange" \in listeners
     THEN /\ isPointerLocked' = TRUE
          /\ createVases
          /\ lastOp' = << "pointerlock", TRUE >>
     ELSE /\ UNCHANGED << isPointerLocked, vaseVars, outline, log >>
          /\ lastOp' = << "mountclick" >>
  /\ UNCHANGED << playerVars, touchVars, geomVars, now, shards, frames,
                  session, sysVars, rendered >>

\* document "pointerlockchange" when the user releases the lock
handlePointerLockChange ==
  /\ "pointerlockchange" \in listeners
  /\ isPointerLocked
  /\ isPointerLocked' = FALSE
  /\ createVases
  /\ lastOp' = << "pointerlock", FALSE >>
  /\ UNCHANGED << playerVars, touchVars, geomVars, now, shards, frames,
                  session, sysVars, rendered >>

\* ------------------------------------------------------- player kinematics
\* variant: the unit direction scaled by 0.1 instead of MOVE_SPEED
KeyboardVelocity_Slow(dx, dz) ==
  LET lenSq == dx * dx + dz * dz
      len == ISqrt(lenSq * 1000000)
  IN IF lenSq = 0 THEN << 0, 0 >>
     ELSE << Div(dx * 1000 * 1000, len), Div(dz * 1000 * 1000, len) >>

\* direction.normalize() scaled by MOVE_SPEED, for direction = (dx, 0, dz)
KeyboardVelocity(dx, dz) ==
  LET lenSq == dx * dx + dz * dz
      len == ISqrt(lenSq * 1000000)
  IN IF lenSq = 0 THEN << 0, 0 >>
     ELSE << Div(dx * MOVE_SPEED * 1000, len), Div(dz * MOVE_SPEED * 1000, len) >>

JoystickVelocity(vec) == << Div(vec[1] * 3, 4), vec[2] >>

\* variant: the keyboard flags win over the joystick vector
HorizontalVelocity_KeysFirst(p, vec) ==
  IF p.moveForward \/ p.moveBackward \/ p.moveLeft \/ p.moveRight
  THEN KeyboardVelocity(Num(p.moveRight) - Num(p.moveLeft),
                        Num(p.moveBackward) - Num(p.moveForward))
  ELSE JoystickVelocity(vec)

HorizontalVelocity(p, vec) ==
  IF vec[1] * vec[1] + vec[2] * vec[2] > 0
  THEN JoystickVelocity(vec)
  ELSE KeyboardVelocity(Num(p.moveRight) - Num(p.moveLeft),
                        Num(p.moveBackward) - Num(p.moveForward))

MoveDirection(p, vec) ==
  LET hv == HorizontalVelocity(p, vec)
  IN applyEuler(hv[1], hv[2], p.rotY)

\* variant: the upper x bound is not tested
InBoundsX_Loose(x) == x >= xMin

InBoundsX(x) == x >= xMin /\ x <= xMax
InBoundsZ(z) == z >= zMin /\ z <= zMax

\* variant: the ground is the floor plane instead of eye height
Landed_Floor(y) == y <= 0

\* the ground check
Landed(y) == y <= cameraHeight

\* variant: landing keeps the vertical velocity
KinematicsStep_KeepVelocity(cam, p, vec) ==
  LET md == MoveDirection(p, vec)
      vy == p.velocityY - GRAVITY
      y1 == cam.y + vy
      landed == Landed(y1)
      nextPositionX == cam.x + md[1]
      nextPositionZ == cam.z + md[2]
      cam2 == [x |-> IF InBoundsX(nextPositionX) THEN nextPositionX ELSE cam.x,
               y |-> IF landed THEN cameraHeight ELSE y1,
               z |-> IF InBoundsZ(nextPositionZ) THEN nextPositionZ ELSE cam.z]
  IN [camera |-> cam2,
      player |-> [p EXCEPT !.velocityY = vy,
                           !.isOnGround = landed,
                           !.position = cam2]]

\* the camera position and player state produced by one updatePlayerPosition
KinematicsStep(cam, p, vec) ==
  LET md == MoveDirection(p, vec)
      vy == p.velocityY - GRAVITY
      y1 == cam.y + vy
      landed == Landed(y1)
      nextPositionX == cam.x + md[1]
      nextPositionZ == cam.z + md[2]
      cam2 == [x |-> IF InBoundsX(nextPositionX) THEN nextPositionX ELSE cam.x,
               y |-> IF landed THEN cameraHeight ELSE y1,
               z |-> IF InBoundsZ(nextPositionZ) THEN nextPositionZ ELSE cam.z]
  IN [camera |-> cam2,
      player |-> [p EXCEPT !.velocityY = IF landed THEN 0 ELSE vy,
                           !.isOnGround = landed,
                           !.position = cam2]]

\* updatePlayerPosition returns at once without a camera
updatePlayerPosition ==
  LET r == KinematicsStep(camera, player, joystickMoveVector)
  IN IF scene
     THEN /\ camera' = r.camera
          /\ player' = r.player
          /\ frames' = frames + 1
     ELSE UNCHANGED << camera, player, frames >>

\* ------------------------------------------------------------------- touch
innerWidth == 400
innerHeight == 800
TAP_DURATION == 200
MOVED_THRESHOLD == 5
SWIPE_THRESHOLD == 10

\* the joystick geometry effect (on mount and on every window resize); the
\* new center object is a state change and renders the component again
updateJoystickGeometry ==
  /\ "resize" \in listeners
  /\ joystickCenter' = << innerWidth \div 2, (innerHeight * 875) \div 1000 >>
  /\ joystickRadius' = innerHeight \div 20
  /\ createVases
  /\ lastOp' = << "geometry" >>
  /\ UNCHANGED << playerVars, touchVars, isPointerLocked, now, shards, frames,
                  session, sysVars, rendered >>

\* cleanupShards: the shard list after the call, which returns at once when
\* sceneRef.current is null; sceneSet tells whether the scene is there
cleanupShards(sceneSet) == IF sceneSet THEN << >> ELSE shards

\* variant: without a computed geometry a touch counts as inside
InsideJoystick_NoGeometry(p) ==
  \/ joystickCenter = NULL
  \/ joystickRadius <= 0
  \/ LET dx == p[1] - joystickCenter[1]
         dy == p[2] - joystickCenter[2]
     IN dx * dx + dy * dy < joystickRadius * joystickRadius

InsideJoystick(p) ==
  /\ joystickCenter # NULL
  /\ joystickRadius > 0
  /\ LET dx == p[1] - joystickCenter[1]
         dy == p[2] - joystickCenter[2]
     IN dx * dx + dy * dy < joystickRadius * joystickRadius

\* variant: a touch starts a session whether or not the pointer is locked
TouchAccepted_AnyMode(n) == n = 1

\* handleTouchStart goes on when the pointer is not locked and one finger is
\* down
TouchAccepted(n) == ~isPointerLocked /\ n = 1

\* n is event.touches.length, p the position of event.touches[0]
\* The first accepted touch changes the isTouchControlActive state: the
\* component renders again, and since the animation-loop effect depends on
\* that state its cleanup runs (cleanupShards, cancelAnimationFrame, listeners
\* off) before the loop and the listeners are set up again.
handleTouchStart(p, n) ==
  /\ "touchstart" \in listeners
  /\ IF TouchAccepted(n)
     THEN /\ touch' = [active |-> TRUE, start |-> p, initialPos |-> p,
                       startTime |-> now, moved |-> FALSE,
                       isJoystick |-> InsideJoystick(p)]
          /\ joystickMoveVector' = << 0, 0 >>
          /\ isTouchControlActive' = TRUE
          /\ session' = [flags0 |-> Flags(player), maxDispSq |-> 0,
                          duration |-> 0]
          /\ IF ~isTouchControlActive
             THEN /\ createVases
                  /\ shards' = cleanupShards(scene)
             ELSE UNCHANGED << vaseVars, outline, log, shards >>
     ELSE UNCHANGED << touchVars, session, vaseVars, outline, log, shards >>
  /\ lastOp' = << "touchstart", p, n >>
  /\ UNCHANGED << playerVars, geomVars, isPointerLocked, now, frames, sysVars,
                  rendered >>

\* the joystick move vector for a touch at offset (joyX, joyY) from the center
JoystickVector(joyX, joyY, radius) ==
  LET dSq == joyX * joyX + joyY * joyY
  IN IF dSq = 0 THEN << 0, 0 >>
     ELSE IF dSq <= radius * radius
     THEN << Div(joyX * MOVE_SPEED, radius), Div(joyY * MOVE_SPEED, radius) >>
     ELSE LET d10 == ISqrt(dSq * 100)
          IN << Div(joyX * MOVE_SPEED * 10, d10),
                Div(joyY * MOVE_SPEED * 10, d10) >>

IsSwipe(initialDeltaX, initialDeltaY) ==
  /\ 2 * Abs(initialDeltaX) > 3 * Abs(initialDeltaY)
  /\ Abs(initialDeltaX) > SWIPE_THRESHOLD

ExceedsMoved(deltaX, deltaY) ==
  Abs(deltaX) > MOVED_THRESHOLD \/ Abs(deltaY) > MOVED_THRESHOLD

NoFlags(p) == [p EXCEPT !.moveForward = FALSE, !.moveBackward = FALSE,
                        !.moveLeft = FALSE, !.moveRight = FALSE]

DistSq(p, q) == (p[1] - q[1]) * (p[1] - q[1]) + (p[2] - q[2]) * (p[2] - q[2])

\* variant: a vertical drag walks, up for forward and down for backward
FreeDrag_Walk(pl, initialDeltaX, initialDeltaY, deltaX) ==
  IF IsSwipe(initialDeltaX, initialDeltaY)
  THEN [pl EXCEPT !.rotY = pl.rotY - deltaX * TOUCH_ROTATE_SENSITIVITY]
  ELSE [pl EXCEPT !.moveForward = initialDeltaY < -MOVED_THRESHOLD,
                  !.moveBackward = initialDeltaY > MOVED_THRESHOLD]

\* the player after a touch move of a free session: a horizontal swipe turns
\* the view by the distance from the last touch position, anything else
\* does nothing
FreeDrag(pl, initialDeltaX, initialDeltaY, deltaX) ==
  IF IsSwipe(initialDeltaX, initialDeltaY)
  THEN [pl EXCEPT !.rotY = pl.rotY - deltaX * TOUCH_ROTATE_SENSITIVITY]
  ELSE pl

handleTouchMove(p, n) ==
  /\ "touchmove" \in listeners
  /\ IF isPointerLocked \/ ~touch.active \/ touch.start = NULL \/ ~scene
        \/ n # 1
     THEN UNCHANGED << player, joystickMoveVector, touch, session >>
     ELSE LET deltaX == p[1] - touch.start[1]
              deltaY == p[2] - touch.start[2]
              moved == touch.moved \/ ExceedsMoved(deltaX, deltaY)
          IN /\ touch' = [touch EXCEPT !.moved = moved, !.start = p]
             /\ session' = [session EXCEPT !.maxDispSq =
                               Max(@, DistSq(p, touch.initialPos))]
             /\ IF touch.isJoystick
                THEN LET joyX == p[1] - joystickCenter[1]
                         joyY == p[2] - joystickCenter[2]
                     IN /\ joystickMoveVector' =
                             JoystickVector(joyX, joyY, joystickRadius)
                        /\ player' =
                             [NoFlags(player) EXCEPT !.rotY =
                                IF joyX = 0 /\ joyY = 0 THEN player.rotY
                                ELSE player.rotY
                                       - joyX * JOYSTICK_ROTATE_SENSITIVITY]
                ELSE LET initialDeltaX == p[1] - touch.initialPos[1]
                         initialDeltaY == p[2] - touch.initialPos[2]
                     IN /\ joystickMoveVector' = << 0, 0 >>
                        /\ player' = FreeDrag(player, initialDeltaX,
                                               initialDeltaY, deltaX)
  /\ Abs(player'.rotY) <= MaxYaw
  /\ lastOp' = << "touchmove" >>
  /\ UNCHANGED << camera, isTouchControlActive, geomVars, isPointerLocked, now,
                  vaseVars, shards, frames, log, outline, sysVars, rendered >>

\* screen coordinates to normalized device coordinates
ToNDC(p) == << Div(p[1] * 2000, innerWidth) - 1000,
               1000 - Div(p[2] * 2000, innerHeight) >>

\* ------------------------------------------------------------------- vases
MaxShardsPerBreak == 2  \* shards per break (the code creates 12..19)
MaxBreaks == 3          \* breaks in one run, over all generations of vases
MaxCalls == 4           \* direct calls of the hooks' functions in one run

\* vase.getWorldPosition(): two rows of pedestals at x = -5 and x = 5
VasePos(v) == << IF v % 2 = 1 THEN -50000 ELSE 50000, 17000,
                 ((v - 1) \div 2) * 50000 - 100000 >>

\* Math.random() draws of createShards for one shard: position jitter,
\* velocity (0.05..0.15 long, pointing upwards) and rotation speed (mrad)
ShardSeeds ==
  { [jitter |-> << 300, -200, 100 >>, velocity |-> << 300, 900, -400 >>,
     rotationSpeed |-> << 40, -70, 10 >>],
    [jitter |-> << 0, 400, 0 >>, velocity |-> << 0, 1400, 0 >>,
     rotationSpeed |-> << 0, 0, 0 >>],
    [jitter |-> << -400, 0, 200 >>, velocity |-> << -700, 500, 700 >>,
     rotationSpeed |-> << -75, 75, 30 >> ] }

Add3(a, b) == << a[1] + b[1], a[2] + b[2], a[3] + b[3] >>

NewShard(worldPosition, seed) ==
  [pos |-> Add3(worldPosition, seed.jitter), vel |-> seed.velocity,
   rot |-> << 0, 0, 0 >>, rotSpeed |-> seed.rotationSpeed, onGround |-> FALSE,
   v0 |-> seed.velocity[2]]

\* the shard list after createShards for a break at worldPosition, which
\* returns at once without a scene
createShards(worldPosition, batch) ==
  IF scene
  THEN shards \o [i \in 1..Len(batch) |-> NewShard(worldPosition, batch[i])]
  ELSE shards

IsHit(h) == h \in hitboxes

\* variant: the hitboxes on the ray, farthest first
Intersects_Farthest(ray) ==
  LET hit == SelectSeq(ray, IsHit)
  IN [i \in 1..Len(hit) |-> hit[Len(hit) + 1 - i]]

\* raycaster.intersectObjects(hitboxesRef.current): the hitboxes on the ray,
\* nearest first; ray lists the vase positions the ray passes through
Intersects(ray) == SelectSeq(ray, IsHit)

\* no intersected hitbox, or one whose vase is broken already
NoVase == 0

\* variant: whatever the ray meets first is broken, with no look at the live
\* hitboxes or the broken set
BreakTarget_First(ray) == IF Len(ray) > 0 THEN ray[1] ELSE NoVase

\* the vase a click along ray breaks: the nearest hitbox on the ray, unless
\* its vase is in the broken set already
BreakTarget(ray) ==
  LET intersects == Intersects(ray)
  IN IF Len(intersects) > 0 /\ intersects[1] \notin brokenVasesSet
     THEN intersects[1] ELSE NoVase

\* history: the call was aimed at the vase position the ray meets first
Aimed(ray) ==
  IF Len(ray) = 0 THEN log
  ELSE [log EXCEPT !.aimed[ray[1]] = Min(2, @ + 1)]

\* handleVaseClick with the onVaseBroken callback wired to createShards and
\* refreshOutlines; it returns at once without a camera or a scene
handleVaseClick(ray, batch) ==
  LET targetVase == IF scene THEN BreakTarget(ray) ELSE NoVase
  IN IF targetVase # NoVase
     THEN /\ brokenVasesCount < MaxBreaks
          /\ brokenVasesSet' = brokenVasesSet \cup {targetVase}
          /\ brokenVasesCount' = brokenVasesCount + 1
          /\ vases' = vases \ {targetVase}
          /\ hitboxes' = hitboxes \ {targetVase}
          /\ shards' = createShards(VasePos(targetVase), batch)
          /\ outline' = refreshOutlines(outline, vases')
          /\ log' = [Aimed(ray) EXCEPT !.breakEvents[targetVase] = @ + 1,
                                       !.spawns = @ + 1]
     ELSE /\ UNCHANGED << vaseVars, shards, outline >>
          /\ log' = Aimed(ray)

\* window "click" listener of the component
combinedMouseClickHandler(ray, batch) ==
  /\ "click" \in listeners
  /\ IF ~isTouchControlActive /\ isPointerLocked
     THEN handleVaseClick(ray, batch)
     ELSE UNCHANGED << vaseVars, shards, log, outline >>
  /\ lastOp' = << "click",
                  IF ~isTouchControlActive /\ isPointerLocked
                  THEN << << 0, 0 >> >> ELSE << >>,
                  ray >>
  /\ UNCHANGED << playerVars, touchVars, geomVars, isPointerLocked, now,
                  frames, session, sysVars, rendered >>

\* p is the position of event.changedTouches[0]
handleTouchEnd(p, ray, batch) ==
  LET touchDuration == now - touch.startTime
      tap == touchDuration < TAP_DURATION /\ ~touch.moved
  IN /\ "touchend" \in listeners
     /\ IF touch.active
        THEN /\ IF tap
                THEN /\ handleVaseClick(ray, batch)
                     /\ UNCHANGED << player, joystickMoveVector >>
                ELSE /\ player' = NoFlags(player)
                     /\ joystickMoveVector' = << 0, 0 >>
                     /\ UNCHANGED << vaseVars, shards, log, outline >>
             /\ touch' = [touch EXCEPT !.active = FALSE, !.start = NULL,
                                       !.initialPos = NULL, !.moved = FALSE,
                                       !.isJoystick = FALSE]
             /\ session' = [session EXCEPT
                               !.maxDispSq = Max(@, DistSq(p, touch.initialPos)),
                               !.duration = touchDuration]
        ELSE UNCHANGED << player, joystickMoveVector, touch, vaseVars, shards,
                          log, session, outline >>
     /\ lastOp' = << "touchend", p, touch.active,
                     IF touch.active /\ tap THEN << ToNDC(p) >> ELSE << >>,
                     ray >>
     /\ UNCHANGED << camera, isTouchControlActive, geomVars, isPointerLocked,
                     now, frames, sysVars, rendered >>

\* ------------------------------------------------------------------ shards
SHARD_GRAVITY == 100
SHARD_GROUND == 500
SHARD_BOUNCE == 3
SHARD_FRICTION == 7
SHARD_CREEP == 10
SHARD_STOP_BOUNCE == 100
SHARD_REST_Y == 30
SHARD_REST_SQ == 1000

\* variant: a penetrating shard is left where it is
RestPosition_NoSnap(pos) == pos

\* a shard below the ground plane is put back on it
RestPosition(pos) == << pos[1], SHARD_GROUND, pos[3] >>

\* the loop body for a shard that is not on the ground
FlightStep(s) ==
    LET pos1 == Add3(s.pos, s.vel)
        rot1 == Add3(s.rot, s.rotSpeed)
        vy1 == s.vel[2] - SHARD_GRAVITY
    IN IF pos1[2] < SHARD_GROUND
       THEN LET vy2 == Div(-vy1 * SHARD_BOUNCE, 10)
                slide == Abs(s.vel[1]) > SHARD_CREEP \/ Abs(s.vel[3]) > SHARD_CREEP
                vx == IF slide THEN Div(s.vel[1] * SHARD_FRICTION, 10) ELSE 0
                vz == IF slide THEN Div(s.vel[3] * SHARD_FRICTION, 10) ELSE 0
                vy3 == IF Abs(vy2) < SHARD_STOP_BOUNCE THEN 0 ELSE vy2
                rest == /\ Abs(vy3) < SHARD_REST_Y
                        /\ vx * vx + vy3 * vy3 + vz * vz < SHARD_REST_SQ
            IN [s EXCEPT
                  !.pos = RestPosition(pos1),
                  !.vel = IF rest THEN << 0, 0, 0 >> ELSE << vx, vy3, vz >>,
                  !.rot = rot1,
                  !.rotSpeed = IF rest THEN << 0, 0, 0 >> ELSE s.rotSpeed,
                  !.onGround = rest]
       ELSE [s EXCEPT !.pos = pos1, !.rot = rot1, !.vel[2] = vy1]

\* variant: shards on the ground are integrated like the others
ShardStep_NoSkip(s) == FlightStep(s)

\* one pass of the updateShards loop body over one shard
ShardStep(s) == IF s.onGround THEN s ELSE FlightStep(s)

\* variant: the shards are stepped whether or not there is a scene
updateShards_NoGuard ==
  shards' = [i \in DOMAIN shards |-> ShardStep(shards[i])]

\* updateShards returns at once without a scene
updateShards ==
  shards' = IF scene THEN [i \in DOMAIN shards |-> ShardStep(shards[i])]
            ELSE shards

\* variant: the frame is drawn before it is updated
render_Early == rendered' = [camera |-> camera, shards |-> shards, calls |-> 1]

\* composer.render() or else renderer.render(scene, camera): the one draw of
\* a frame, of the camera and the shards as the updates have left them
render == rendered' = [camera |-> camera', shards |-> shards', calls |-> 1]

\* the condition under which a frame updates the player
MovementEnabled == isPointerLocked \/ isTouchControlActive

\* -------------------------------------------------------------- frame tick
\* animate: the next frame is requested, then kinematics (when movement is
\* enabled), then shards, then render
animate(cap) ==
  /\ frameRequested
  /\ MovementEnabled => frames < cap
  /\ IF MovementEnabled
     THEN updatePlayerPosition
     ELSE UNCHANGED << camera, player, frames >>
  /\ updateShards
  /\ IF scene THEN render ELSE UNCHANGED rendered
  /\ lastOp' = << "animate", isPointerLocked \/ isTouchControlActive >>
  /\ UNCHANGED << touchVars, geomVars, isPointerLocked, now, vaseVars, log,
                  session, outline, sysVars >>

\* the wall clock advances between events
TimeSteps == {150}

Tick(dt) ==
  /\ now + dt <= MaxTime
  /\ now' = now + dt
  /\ UNCHANGED << playerVars, touchVars, geomVars, isPointerLocked, vaseVars,
                  shards, frames, lastOp, log, session, outline, sysVars,
                  rendered >>

\* ----------------------------------------------------------- initial state
sceneCameraHeight == 30000

Cam(x, y, z) == [x |-> x, y |-> y, z |-> z]

\* playerStateRef as constructed by usePlayerControls
PlayerInit ==
  [position |-> Cam(0, 25000, -120000), velocityY |-> 0, rotX |-> 0, rotY |-> 0,
   moveForward |-> FALSE, moveBackward |-> FALSE, moveLeft |-> FALSE,
   moveRight |-> FALSE, isOnGround |-> FALSE, rotZ |-> 0]

TouchIdle ==
  [active |-> FALSE, start |-> NULL, initialPos |-> NULL, startTime |-> 0,
   moved |-> FALSE, isJoystick |-> FALSE]

\* camera.position.set(0, cameraHeight, 10) of useSceneSetup
SceneCamera == Cam(0, sceneCameraHeight, 100000)

\* the listeners of the mounted component: those of usePlayerControls, of
\* the joystick geometry effect and of the animation-loop effect
Listeners ==
  { "keydown", "keyup", "mousemove", "touchstart", "touchmove", "touchend",
    "touchcancel", "resize", "mountclick", "click", "pointerlockchange",
    "pointerlockerror" }

NothingRendered == [camera |-> NULL, shards |-> << >>, calls |-> 0]

NoFingers == [down |-> {}, owner |-> 0]

\* useSceneSetup once the component is mounted and its effect has run: the
\* observer watches the mount, nothing is set up
SetupPending ==
  [mountRef |-> TRUE, effect |-> TRUE, resizeObserver |-> TRUE,
   isInitialized |-> FALSE, renderer |-> FALSE, cleanupFunc |-> NULL,
   initializationStatus |-> "pending", statusQueue |-> << >>, setups |-> 0,
   mounts |-> 1]

\* useSceneSetup after setup has run and "ready" has been rendered
SetupReady ==
  [SetupPending EXCEPT !.resizeObserver = FALSE, !.isInitialized = TRUE,
                       !.renderer = TRUE, !.cleanupFunc = "cleanup",
                       !.initializationStatus = "ready", !.setups = 1]

\* the scene is ready, the listeners are attached and the loop is running
SysInit ==
  /\ scene = TRUE
  /\ listeners = Listeners
  /\ frameRequested = TRUE
  /\ rendered = NothingRendered
  /\ fingers = NoFingers
  /\ sceneSetup = SetupReady

\* the refs and state of usePlayerControls as constructed
ControlsInitBut ==
  /\ player = PlayerInit
  /\ joystickMoveVector = << 0, 0 >>
  /\ joystickCenter = NULL
  /\ joystickRadius = 0
  /\ touch = TouchIdle
  /\ isPointerLocked = FALSE
  /\ isTouchControlActive = FALSE
  /\ now = 0
  /\ frames = 0
  /\ lastOp = << "init" >>
  /\ session = [flags0 |-> << FALSE, FALSE, FALSE, FALSE >>,
                maxDispSq |-> 0, duration |-> 0]

ControlsInit == SysInit /\ ControlsInitBut

VasesInit ==
  /\ hitboxes = Vases
  /\ vases = Vases
  /\ brokenVasesSet = {}
  /\ brokenVasesCount = 0
  /\ outline = Vases
  /\ shards = << >>
  /\ log = [breakEvents |-> [v \in Vases |-> 0], spawns |-> 0,
            aimed |-> [v \in Vases |-> 0], calls |-> 0]

\* in-bounds places the walk may start from: the scene's camera position,
\* a place near the +x/+z corner and the -x/-z corner itself
StartCameras ==
  { SceneCamera, Cam(94000, sceneCameraHeight, 144000),
    Cam(xMin, cameraHeight, zMin) }


\* ------------------------------------------------------ the touch session
\* touch points: three in the free area within 3 px of each other and one
\* inside the joystick circle
TouchPoints ==
  { << 100, 100 >>, << 97, 100 >>, << 103, 100 >>, << 200, 690 >> }

NoBatch == << >>
NoRay == << >>

Next ==
  \/ updateJoystickGeometry
  \/ \E p \in TouchPoints, n \in {1, 2} : handleTouchStart(p, n)
  \/ \E p \in TouchPoints, n \in {1, 2} : handleTouchMove(p, n)
  \/ \E p \in TouchPoints : handleTouchEnd(p, NoRay, NoBatch)
  \/ \E dt \in TimeSteps : Tick(dt)

\* the mounted component before any input
Init == ControlsInit /\ VasesInit /\ camera = SceneCamera

Spec == Init /\ [][Next]_vars

\* ---------------------------------------------- kinematics over its inputs
\* yaw values, joystick offsets and flag combinations the handlers produce
Yaws == { y \in -MaxYaw..MaxYaw : y % 400 = 0 }

JoyOffsets == { << 0, 0 >>, << 0, -30 >>, << 100, 0 >>, << -20, 20 >> }

JoyVectors ==
  { JoystickVector(o[1], o[2], innerHeight \div 20) : o \in JoyOffsets }

MoveKeys == {"KeyW", "KeyS", "KeyA", "KeyD"}

KinInit ==
  /\ camera \in StartCameras
  /\ \E f \in [1..4 -> BOOLEAN], yaw \in Yaws :
       player = [PlayerInit EXCEPT !.moveForward = f[1], !.moveBackward = f[2],
                                   !.moveLeft = f[3], !.moveRight = f[4],
                                   !.rotY = yaw]
  /\ joystickMoveVector \in JoyVectors
  /\ joystickCenter = << innerWidth \div 2, (innerHeight * 875) \div 1000 >>
  /\ joystickRadius = innerHeight \div 20
  /\ touch = TouchIdle
  /\ isPointerLocked \in BOOLEAN
  /\ isTouchControlActive \in BOOLEAN
  /\ now = 0
  /\ frames = 0
  /\ lastOp = << "init" >>
  /\ session = [flags0 |-> << FALSE, FALSE, FALSE, FALSE >>,
                maxDispSq |-> 0, duration |-> 0]
  /\ VasesInit
  /\ SysInit

KinNext ==
  \/ animate(MaxFrames)
  \/ \E code \in MoveKeys : handleKeyUp(code)

SpecKin == KinInit /\ [][KinNext]_vars

\* ------------------------------------------------------- jump and gravity
StartHeights == { cameraHeight, sceneCameraHeight, cameraHeight + 50000 }

JumpInit ==
  /\ ControlsInit
  /\ VasesInit
  /\ \E h \in StartHeights : camera = Cam(0, h, 100000)

JumpNext ==
  \/ handleMountClick
  \/ handlePointerLockChange
  \/ handleKeyDown("Space")
  \/ animate(MaxJumpFrames)

SpecJump == JumpInit /\ [][JumpNext]_vars

\* ---------------------------------------------------------- breaking vases
\* rays through at most two vase positions, nearest first
Rays ==
  { << >> } \cup { << v >> : v \in Vases }
    \cup { << vw[1], vw[2] >> : vw \in { x \in Vases \X Vases : x[1] # x[2] } }

TapPoint == << 100, 100 >>

\* the random draws of one break: one to MaxShardsPerBreak shards of one seed
BreakBatches ==
  { [i \in 1..n |-> seed] : n \in 1..MaxShardsPerBreak,
                             seed \in { d \in ShardSeeds : d.velocity[1] = 0 } }

\* the number the "Broken Vases" counter renders: the brokenVasesCount state
\* of the component, which has an initial value and no setter
displayedBrokenVasesCount == 0

VasesNext ==
  \/ handleMountClick
  \/ handlePointerLockChange
  \/ \E ray \in Rays, batch \in BreakBatches : combinedMouseClickHandler(ray, batch)
  \/ handleTouchStart(TapPoint, 1)
  \/ \E ray \in Rays, batch \in BreakBatches : handleTouchEnd(TapPoint, ray, batch)

SpecVases == Init /\ [][VasesNext]_vars

\* -------------------------------------------------- free fall from a height
FallInit == ControlsInit /\ VasesInit
              /\ camera = Cam(0, cameraHeight + 50000, 100000)

FallNext ==
  \/ handleMountClick
  \/ handlePointerLockChange
  \/ animate(MaxJumpFrames)

SpecFall == FallInit /\ [][FallNext]_vars

\* ------------------------------------------------------- shards in flight
\* shards with the scenario's initial vertical velocity 0.3, spawned at
\* ground level or at vase height, with and without horizontal velocity
ScenarioShards ==
  { [pos |-> << 0, h, 0 >>, vel |-> << vx, 3000, 0 >>, rot |-> << 0, 0, 0 >>,
     rotSpeed |-> << 40, -70, 10 >>, onGround |-> FALSE, v0 |-> 3000]
      : h \in {SHARD_GROUND, 17000}, vx \in {0, 400} }

SpawnedShards ==
  { NewShard(VasePos(1), seed) : seed \in ShardSeeds } \cup ScenarioShards

ShardLists == UNION { [1..n -> SpawnedShards] : n \in 1..MaxShardsPerBreak }

\* the state right after vase 1 has been broken
ShardsInit ==
  /\ ControlsInit
  /\ camera = SceneCamera
  /\ hitboxes = Vases \ {1}
  /\ vases = Vases \ {1}
  /\ brokenVasesSet = {1}
  /\ brokenVasesCount = 1
  /\ outline = Vases \ {1}
  /\ shards \in ShardLists
  /\ log = [breakEvents |-> [v \in Vases |-> IF v = 1 THEN 1 ELSE 0],
            spawns |-> 1, aimed |-> [v \in Vases |-> IF v = 1 THEN 1 ELSE 0],
            calls |-> 0]

ShardsNext == animate(MaxFrames)

SpecShards == ShardsInit /\ [][ShardsNext]_vars

\* requestAnimationFrame re-arms animate in every frame
FairSpecShards == SpecShards /\ WF_vars(ShardsNext)

\* ------------------------------------------------- looking around
\* mouse movements (movementX, movementY) in px
LookMoves == { << 0, 800 >>, << 0, -800 >>, << 200, 0 >>, << -200, -800 >> }

\* touch points: one inside the joystick circle, one a swipe to the right of
\* it and one elsewhere in the free area
LookTouchPoints == { << 200, 690 >>, << 300, 690 >>, << 100, 100 >> }

LookNext ==
  \/ handleMountClick
  \/ handlePointerLockChange
  \/ updateJoystickGeometry
  \/ \E m \in LookMoves : handleMouseMove(m[1], m[2])
  \/ \E p \in LookTouchPoints : handleTouchStart(p, 1)
  \/ \E p \in LookTouchPoints : handleTouchMove(p, 1)
  \/ \E p \in LookTouchPoints : handleTouchEnd(p, NoRay, NoBatch)

SpecLook == Init /\ [][LookNext]_vars

\* ------------------------------------------------------------- scene setup
\* setInitializationStatus(v): the value waits for the next render; React
\* drops a value equal to the current one when nothing else waits
SetStatus(s, v) ==
  IF s.statusQueue = << >> /\ s.initializationStatus = v THEN s
  ELSE [s EXCEPT !.statusQueue = Append(@, v)]

\* variant: setup leaves isInitializedRef as it was
SetupDone_NoFlag(s) ==
  SetStatus([s EXCEPT !.renderer = TRUE, !.cleanupFunc = "cleanup"], "ready")

\* the end of a setup that had a mount to append the canvas to: rendererRef
\* is set, isInitializedRef becomes true, the status is set to "ready" and
\* the cleanup function is returned
SetupDone(s) ==
  SetStatus([s EXCEPT !.renderer = TRUE, !.isInitialized = TRUE,
                      !.cleanupFunc = "cleanup"], "ready")

\* setup(width, height) as called by the observer, on the hook's own state;
\* sceneRef and cameraRef are set by the caller's scene' whenever the body
\* runs. Without a mount the renderer is disposed and an empty cleanup is
\* returned.
setup(s) ==
  IF s.isInitialized THEN [s EXCEPT !.cleanupFunc = "noop"]
  ELSE LET ran == [s EXCEPT !.setups = @ + 1]
       IN IF s.mountRef THEN SetupDone(ran)
          ELSE [ran EXCEPT !.cleanupFunc = "noop"]

\* the function setup returned, when it is the real one: the handles are
\* set to null, isInitializedRef to false and the status to "pending"
StoredCleanup(s) ==
  IF s.cleanupFunc = "cleanup"
  THEN SetStatus([s EXCEPT !.renderer = FALSE, !.isInitialized = FALSE],
                 "pending")
  ELSE s

\* the cleanup of the hook's effect: the observer is disconnected, the
\* stored cleanup is called and forgotten, the flag and the status are reset
MainCleanup(s) ==
  SetStatus([StoredCleanup(s) EXCEPT !.resizeObserver = FALSE,
                                     !.cleanupFunc = NULL,
                                     !.isInitialized = FALSE,
                                     !.effect = FALSE,
                                     !.mountRef = FALSE], "pending")

\* ---------------------------------------------------------------- teardown
\* The component unmounts: the effect cleanups run in the order in which the
\* effects were declared. useSceneSetup's cleanup comes first and sets the
\* scene, camera, renderer, composer and outline pass refs to null; then the
\* vase effect clears its lists and the broken set; usePlayerControls takes
\* its resize, key, mouse and touch listeners off; last the animation-loop
\* effect takes its listeners off, calls cleanupShards and cancels the frame.
\* The mount's click listener is taken off only if mountRef.current is still
\* set when that cleanup runs, which depends on the React version:
\* mountAttached says whether it is.
unmount(mountAttached) ==
  /\ scene
  /\ scene' = FALSE
  /\ outline' = {}
  /\ hitboxes' = {}
  /\ vases' = {}
  /\ brokenVasesSet' = {}
  /\ listeners' = IF mountAttached THEN {} ELSE {"mountclick"}
  /\ shards' = cleanupShards(scene')
  /\ frameRequested' = FALSE
  /\ lastOp' = << "unmount", mountAttached >>
  /\ sceneSetup' = MainCleanup([sceneSetup EXCEPT !.mountRef = mountAttached])
  /\ UNCHANGED << playerVars, touchVars, geomVars, isPointerLocked, now,
                  brokenVasesCount, frames, log, session, rendered, fingers >>

\* rays through one vase or none; one shard per break
TeardownRays == { ray \in Rays : Len(ray) <= 1 }

TeardownBatches == { b \in BreakBatches : Len(b) = 1 }

TeardownNext ==
  \/ handleMountClick
  \/ \E ray \in TeardownRays, batch \in TeardownBatches :
       combinedMouseClickHandler(ray, batch)
  \/ animate(MaxFrames)
  \/ \E mountAttached \in BOOLEAN : unmount(mountAttached)

SpecTeardown == Init /\ [][TeardownNext]_vars

\* ------------------------------------------- the life of the scene setup
MaxMounts == 2

\* the listeners usePlayerControls attaches when the component mounts
InputListeners ==
  { "keydown", "keyup", "mousemove", "touchstart", "touchmove", "touchend",
    "touchcancel", "resize" }

\* widths and heights the observer reports; an element without a box, as
\* the mount is once it has left the document, has none
ObservedSizes == { << 0, 0 >>, << 800, 0 >>, << 800, 600 >>, << 1024, 768 >> }

\* a new instance of the component is mounted: fresh state and refs, the
\* listeners of usePlayerControls go on, the effect of useSceneSetup starts
\* the observer, and the animation-loop effect finds the status "pending"
mountComponent ==
  /\ ~sceneSetup.effect
  /\ sceneSetup.mounts < MaxMounts
  /\ sceneSetup' = [SetupPending EXCEPT !.mounts = sceneSetup.mounts + 1]
  /\ listeners' = InputListeners \cup (listeners \cap {"mountclick"})
  /\ isPointerLocked' = FALSE
  /\ lastOp' = << "mount" >>
  /\ UNCHANGED << playerVars, touchVars, geomVars, now, vaseVars, shards,
                  frames, log, session, outline, scene, frameRequested,
                  rendered, fingers >>

\* the ResizeObserver callback with the mount's content size
resizeObserverCallback(width, height) ==
  /\ sceneSetup.effect
  /\ sceneSetup.resizeObserver
  /\ (width > 0 \/ height > 0) => sceneSetup.mountRef
  /\ IF width > 0 /\ height > 0 /\ ~sceneSetup.isInitialized
     THEN LET s == setup(sceneSetup)
          IN /\ sceneSetup' = [s EXCEPT !.resizeObserver = ~s.isInitialized]
             /\ scene' = TRUE
             /\ camera' = SceneCamera
     ELSE UNCHANGED << sceneSetup, scene, camera >>
  /\ lastOp' = << "resize", width, height >>
  /\ UNCHANGED << player, touchVars, geomVars, isPointerLocked, now, vaseVars,
                  shards, frames, log, session, outline, listeners,
                  frameRequested, rendered, fingers >>

\* the listeners of the animation-loop effect
LoopListeners ==
  { "mountclick", "click", "pointerlockchange", "pointerlockerror" }

\* React renders the component with the last status set. The effects that
\* depend on the status run: the vase effect creates the vases if there is
\* a scene, and the animation-loop effect, if it finds "ready" and the
\* scene, renderer and camera handles, starts the loop and attaches its
\* listeners. lastOp records the status found and whether the handles were
\* there.
renderStatus ==
  /\ sceneSetup.mountRef
  /\ sceneSetup.statusQueue # << >>
  /\ LET status == sceneSetup.statusQueue[Len(sceneSetup.statusQueue)]
         handles == scene /\ sceneSetup.renderer
     IN /\ sceneSetup' = [sceneSetup EXCEPT !.initializationStatus = status,
                                             !.statusQueue = << >>]
        /\ createVases
        /\ IF status = "ready" /\ handles
           THEN /\ listeners' = listeners \cup LoopListeners
                /\ frameRequested' = TRUE
           ELSE UNCHANGED << listeners, frameRequested >>
        /\ lastOp' = << "render", status, handles >>
  /\ UNCHANGED << playerVars, touchVars, geomVars, isPointerLocked, now,
                  shards, frames, session, scene, rendered, fingers >>

\* the component leaves the tree: React detaches mountRef and removes the
\* mount from the document; the effect cleanups run later
detachMount ==
  /\ sceneSetup.effect
  /\ sceneSetup.mountRef
  /\ sceneSetup' = [sceneSetup EXCEPT !.mountRef = FALSE]
  /\ lastOp' = << "detach" >>
  /\ UNCHANGED << playerVars, touchVars, geomVars, isPointerLocked, now,
                  vaseVars, shards, frames, log, session, outline, scene,
                  listeners, frameRequested, rendered, fingers >>

\* the effect cleanups of a component that was never set up
unmountPending ==
  /\ sceneSetup.effect
  /\ ~scene
  /\ sceneSetup' = MainCleanup(sceneSetup)
  /\ listeners' = {}
  /\ lastOp' = << "unmount", sceneSetup.mountRef >>
  /\ UNCHANGED << playerVars, touchVars, geomVars, isPointerLocked, now,
                  vaseVars, shards, frames, log, session, outline, scene,
                  frameRequested, rendered, fingers >>

\* the effect cleanups of a component that was set up
unmountReady ==
  /\ sceneSetup.effect
  /\ unmount(sceneSetup.mountRef)

\* a freshly mounted component, nothing set up yet
SetupInit ==
  /\ ControlsInitBut
  /\ scene = FALSE
  /\ listeners = InputListeners
  /\ frameRequested = FALSE
  /\ rendered = NothingRendered
  /\ fingers = NoFingers
  /\ sceneSetup = SetupPending
  /\ camera = SceneCamera
  /\ hitboxes = {}
  /\ vases = {}
  /\ brokenVasesSet = {}
  /\ brokenVasesCount = 0
  /\ outline = {}
  /\ shards = << >>
  /\ log = [breakEvents |-> [v \in Vases |-> 0], spawns |-> 0,
            aimed |-> [v \in Vases |-> 0], calls |-> 0]

SetupNext ==
  \/ mountComponent
  \/ \E size \in ObservedSizes : resizeObserverCallback(size[1], size[2])
  \/ renderStatus
  \/ detachMount
  \/ unmountPending
  \/ unmountReady
  \/ handleMountClick
  \/ animate(MaxFrames)

SpecSetup == SetupInit /\ [][SetupNext]_vars

\* ------------------------------------------------------------ the keyboard
KeysNext ==
  \/ handleMountClick
  \/ handlePointerLockChange
  \/ \E code \in MoveKeys : handleKeyDown(code)
  \/ \E code \in MoveKeys : handleKeyUp(code)
  \/ handleTouchStart(TapPoint, 1)

SpecKeys == Init /\ [][KeysNext]_vars

\* the move-intent flag of a directional key
FlagOf(p, code) ==
  CASE code = "KeyW" -> p.moveForward
    [] code = "KeyS" -> p.moveBackward
    [] code = "KeyA" -> p.moveLeft
    [] code = "KeyD" -> p.moveRight

\* ------------------------------------------------- several fingers at once
\* The browser's side of a touch: a finger lands on or leaves the screen, and
\* the touchstart or touchend (touchcancel has the same handler) event is
\* dispatched to the handler afterwards. The first element of lastOp is
\* "finger" while that event waits; event.touches is the fingers on the
\* screen after the change, the position handed over is that of the finger
\* the event is about.
MaxFingers == 2

Fingers == 1..MaxFingers

MultiPoints == { << 100, 100 >>, << 200, 690 >> }

fingerDown(f, p) ==
  /\ lastOp[1] # "finger"
  /\ f \notin fingers.down
  /\ fingers' = [down |-> fingers.down \cup {f},
                 owner |-> IF fingers.down = {} THEN f ELSE fingers.owner]
  /\ lastOp' = << "finger", "touchstart", f, p >>
  /\ UNCHANGED << playerVars, touchVars, geomVars, isPointerLocked, now,
                  vaseVars, shards, frames, log, session, outline, scene,
                  listeners, frameRequested, rendered, sceneSetup >>

fingerUp(f, p) ==
  /\ lastOp[1] # "finger"
  /\ f \in fingers.down
  /\ fingers' = [fingers EXCEPT !.down = @ \ {f}]
  /\ lastOp' = << "finger", "touchend", f, p >>
  /\ UNCHANGED << playerVars, touchVars, geomVars, isPointerLocked, now,
                  vaseVars, shards, frames, log, session, outline, scene,
                  listeners, frameRequested, rendered, sceneSetup >>

dispatchTouchStart ==
  /\ lastOp[1] = "finger"
  /\ lastOp[2] = "touchstart"
  /\ handleTouchStart(lastOp[4], Cardinality(fingers.down))

dispatchTouchEnd ==
  /\ lastOp[1] = "finger"
  /\ lastOp[2] = "touchend"
  /\ handleTouchEnd(lastOp[4], NoRay, NoBatch)

\* a finger on the screen moves: p is the position of event.touches[0]
fingerMove(p) ==
  /\ lastOp[1] # "finger"
  /\ fingers.down # {}
  /\ handleTouchMove(p, Cardinality(fingers.down))

\* the window is resized while no touch event waits
resizeBetweenTouches ==
  /\ lastOp[1] # "finger"
  /\ updateJoystickGeometry

MultiNext ==
  \/ \E f \in Fingers, p \in MultiPoints : fingerDown(f, p)
  \/ \E f \in Fingers, p \in MultiPoints : fingerUp(f, p)
  \/ dispatchTouchStart
  \/ dispatchTouchEnd
  \/ \E p \in MultiPoints : fingerMove(p)
  \/ resizeBetweenTouches
  \/ Tick(150)

SpecMulti == Init /\ [][MultiNext]_vars

\* ---------------------------------------- the hooks' functions, called
\* The functions the hooks return, called directly, with or without the
\* scene and the camera; log.calls counts the calls.
Called == [log EXCEPT !.calls = @ + 1]

callUpdatePlayerPosition ==
  /\ log.calls < MaxCalls
  /\ updatePlayerPosition
  /\ log' = Called
  /\ lastOp' = << "updatePlayerPosition" >>
  /\ UNCHANGED << joystickMoveVector, touch, isTouchControlActive, geomVars,
                  isPointerLocked, now, vaseVars, shards, session, outline,
                  sysVars, rendered >>

callUpdateShards ==
  /\ log.calls < MaxCalls
  /\ updateShards
  /\ log' = Called
  /\ lastOp' = << "updateShards" >>
  /\ UNCHANGED << playerVars, touchVars, geomVars, isPointerLocked, now,
                  vaseVars, frames, session, outline, sysVars, rendered >>

callCreateShards(v, batch) ==
  /\ log.calls < MaxCalls
  /\ shards' = createShards(VasePos(v), batch)
  /\ log' = Called
  /\ lastOp' = << "createShards" >>
  /\ UNCHANGED << playerVars, touchVars, geomVars, isPointerLocked, now,
                  vaseVars, frames, session, outline, sysVars, rendered >>

callHandleVaseClick(ray, batch) ==
  /\ handleVaseClick(ray, batch)
  /\ lastOp' = << "handleVaseClick", ray >>
  /\ UNCHANGED << playerVars, touchVars, geomVars, isPointerLocked, now,
                  frames, session, sysVars, rendered >>

HandlesNext ==
  \/ callUpdatePlayerPosition
  \/ callUpdateShards
  \/ \E v \in Vases, batch \in TeardownBatches : callCreateShards(v, batch)
  \/ \E ray \in TeardownRays, batch \in TeardownBatches :
       callHandleVaseClick(ray, batch)
  \/ \E mountAttached \in BOOLEAN : unmount(mountAttached)

SpecHandles == Init /\ [][HandlesNext]_vars

\* ================================================================= claims

\* C1 (SpecKin): after every kinematics update the player's horizontal
\* position, and the camera's, lie inside the room: xMin <= x <= xMax and
\* zMin <= z <= zMax.
C1_WithinBounds ==
  frames > 0 =>
    /\ player.position.x >= xMin /\ player.position.x <= xMax
    /\ player.position.z >= zMin /\ player.position.z <= zMax
    /\ camera.x >= xMin /\ camera.x <= xMax
    /\ camera.z >= zMin /\ camera.z <= zMax

\* an update whose x step towards the wall was refused while the z step was
\* applied
C1_BlockedAtWall ==
  /\ frames = 1
  /\ lastOp = << "animate", TRUE >>
  /\ player.moveLeft /\ ~player.moveRight /\ player.rotY = 0
  /\ joystickMoveVector = << 0, 0 >>
  /\ camera.x = xMin
  /\ camera.z > zMin

\* C2 (SpecJump): once the first kinematics update has run, isOnGround is
\* true exactly when the vertical position equals the eye height and the
\* vertical velocity is zero.
C2_GroundIffResting ==
  frames >= 1 =>
    (player.isOnGround <=> (camera.y = cameraHeight /\ player.velocityY = 0))

\* right after a jump request: at eye height, moving up, not on the ground
C2_JustJumped ==
  /\ frames >= 1
  /\ lastOp = << "keydown", "Space" >>
  /\ camera.y = cameraHeight
  /\ player.velocityY = JUMP_STRENGTH
  /\ ~player.isOnGround

\* C3 (SpecVases): however many clicks and taps are aimed at a vase, it is
\* broken at most once: one break event per member of the broken set, one
\* shard spawn per counted break, and the hitbox of a broken vase gone.
C3_BrokenAtMostOnce ==
  /\ \A v \in Vases :
       /\ log.breakEvents[v] = (IF v \in brokenVasesSet THEN 1 ELSE 0)
       /\ v \in brokenVasesSet <=> v \notin hitboxes
       /\ v \in brokenVasesSet <=> v \notin vases
  /\ log.spawns = brokenVasesCount
  /\ brokenVasesCount >= Cardinality(brokenVasesSet)

\* a vase was aimed at twice and broke once
C3_HitTwice ==
  \E v \in Vases : log.aimed[v] = 2 /\ log.breakEvents[v] = 1
                     /\ v \in brokenVasesSet

\* C4 (SpecShards): a shard on the ground has zero velocity and zero rotation
\* speed, and every later frame leaves its position, rotation, velocity and
\* onGround flag as they are.
C4_SettledIsTerminal ==
  /\ [](\A i \in DOMAIN shards :
          shards[i].onGround =>
            /\ shards[i].vel = << 0, 0, 0 >>
            /\ shards[i].rotSpeed = << 0, 0, 0 >>)
  /\ [][\A i \in DOMAIN shards :
          shards[i].onGround => i \in DOMAIN shards' /\ shards'[i] = shards[i]
       ]_vars

\* a frame has run over a list with a shard on the ground and one in flight
C4_SettledAmongFlying ==
  /\ lastOp[1] = "animate"
  /\ \E i, j \in DOMAIN shards :
       /\ shards[i].onGround
       /\ ~shards[j].onGround
       /\ shards[j].pos[2] > SHARD_GROUND

\* C5 (SpecJump): a jump request made while isOnGround is false leaves the
\* vertical velocity and the flag alone; the velocity is set only from the
\* ground, to JUMP_STRENGTH, with isOnGround cleared.
C5_JumpGating ==
  [][ lastOp' = << "keydown", "Space" >> =>
        /\ ~player.isOnGround => player' = player
        /\ player'.velocityY # player.velocityY =>
             /\ player.isOnGround
             /\ player'.velocityY = JUMP_STRENGTH
             /\ ~player'.isOnGround
        /\ (player.isOnGround /\ isPointerLocked) =>
             /\ player'.velocityY = JUMP_STRENGTH
             /\ ~player'.isOnGround
    ]_vars

\* Space pressed in mid-air while falling, pointer locked
C5_PressedInAir ==
  /\ lastOp = << "keydown", "Space" >>
  /\ isPointerLocked
  /\ ~player.isOnGround
  /\ camera.y > cameraHeight
  /\ player.velocityY < 0

\* C6 (SpecKin): when the joystick vector is non-zero, the horizontal step of
\* a kinematics update is the joystick vector (x scaled by 0.75) turned by the
\* yaw, whatever the keyboard flags are.
C6_JoystickWins ==
  [][ (frames' = frames + 1 /\ joystickMoveVector # << 0, 0 >>) =>
        LET md == applyEuler(Div(joystickMoveVector[1] * 3, 4),
                             joystickMoveVector[2], player.rotY)
            nx == camera.x + md[1]
            nz == camera.z + md[2]
        IN /\ camera'.x = (IF nx >= xMin /\ nx <= xMax THEN nx ELSE camera.x)
           /\ camera'.z = (IF nz >= zMin /\ nz <= zMax THEN nz ELSE camera.z)
    ]_vars

\* an update that moved forward along the joystick while the backward key
\* flag was set
C6_JoystickAgainstKeys ==
  /\ frames = 1
  /\ lastOp = << "animate", TRUE >>
  /\ player.moveBackward /\ ~player.moveForward
  /\ player.rotY = 0
  /\ joystickMoveVector[1] = 0 /\ joystickMoveVector[2] < 0
  /\ camera.x = 0
  /\ camera.z = 100000 + joystickMoveVector[2]

\* C7 (Spec): a touch session that lasts 150 ms and never strays more than
\* 3 px from its starting point ends with exactly one hit-test at the NDC
\* coordinates of the end point, and with the movement flags as they were when
\* the touch began.
C7_TapHitTests ==
  ( /\ Len(lastOp) = 5
    /\ lastOp[1] = "touchend"
    /\ lastOp[3]
    /\ session.duration = 150
    /\ session.maxDispSq <= 9 )
  => ( /\ lastOp[4] = << ToNDC(lastOp[2]) >>
       /\ Flags(player) = session.flags0 )

\* C8 (SpecFall): falling from eye height + 5 with zero vertical velocity and
\* no jump, frame n of the fall has velocity -n * GRAVITY and height
\* start - GRAVITY * n(n+1)/2; isOnGround is false up to the frame at which
\* that height reaches or passes eye height, and from that frame on the
\* player is on the ground at eye height with zero vertical velocity.
C8_FallLanding ==
  LET free == cameraHeight + 50000 - GRAVITY * ((frames * (frames + 1)) \div 2)
  IN IF free > cameraHeight
     THEN /\ ~player.isOnGround
          /\ camera.y = free
          /\ player.velocityY = -GRAVITY * frames
     ELSE /\ player.isOnGround
          /\ camera.y = cameraHeight
          /\ player.velocityY = 0

\* the frame of the crossing: the one before was still above eye height
C8_CrossingFrame ==
  /\ frames > 0
  /\ cameraHeight + 50000 - GRAVITY * ((frames * (frames + 1)) \div 2)
       <= cameraHeight
  /\ cameraHeight + 50000 - GRAVITY * ((frames * (frames - 1)) \div 2)
       > cameraHeight
  /\ player.isOnGround
  /\ lastOp = << "animate", TRUE >>

\* C9 (FairSpecShards): a shard spawned with vertical velocity 0.3 is on the
\* ground after finitely many frames, and a shard of that kind on the ground
\* rests at height 0.05.
C9_ScenarioSettles ==
  /\ <>[](\A i \in DOMAIN shards : shards[i].v0 = 3000 => shards[i].onGround)
  /\ [](\A i \in DOMAIN shards :
          (shards[i].v0 = 3000 /\ shards[i].onGround) =>
            shards[i].pos[2] = SHARD_GROUND)

\* a scenario shard that was thrown up from vase height has come to rest
C9_ScenarioAtRest ==
  \E i \in DOMAIN shards :
    /\ shards[i].v0 = 3000
    /\ shards[i].onGround
    /\ shards[i].pos[2] = SHARD_GROUND
    /\ shards[i].pos[1] # 0

\* C10 (SpecKin): with only the forward flag set, yaw 0, no joystick input
\* and the step staying inside the room, one kinematics update moves the
\* position by exactly MOVE_SPEED towards -Z and leaves x as it is.
C10_ForwardStep ==
  [][ ( /\ frames' = frames + 1
        /\ Flags(player) = << TRUE, FALSE, FALSE, FALSE >>
        /\ player.rotY = 0
        /\ joystickMoveVector = << 0, 0 >>
        /\ camera.z - MOVE_SPEED >= zMin /\ camera.z - MOVE_SPEED <= zMax )
      => ( /\ camera'.z = camera.z - MOVE_SPEED
           /\ camera'.x = camera.x
           /\ player'.position.z = camera.z - MOVE_SPEED
           /\ player'.position.x = camera.x )
    ]_vars

\* two forward steps from the scene camera's starting position
C10_WalkedForward ==
  /\ frames = 2
  /\ lastOp = << "animate", TRUE >>
  /\ Flags(player) = << TRUE, FALSE, FALSE, FALSE >>
  /\ player.rotY = 0
  /\ joystickMoveVector = << 0, 0 >>
  /\ camera.x = 0
  /\ camera.z = 100000 - 2 * MOVE_SPEED

\* C11 (SpecVases): a vase that breaks leaves the hit-test set and the scene
\* in that step, and over the session the working set only shrinks: no step
\* makes the list of hitboxes or the list of vases longer.
C11_WorkingSetShrinks ==
  [][ /\ Cardinality(hitboxes') <= Cardinality(hitboxes)
      /\ Cardinality(vases') <= Cardinality(vases)
      /\ \A v \in brokenVasesSet' \ brokenVasesSet :
           v \notin hitboxes' /\ v \notin vases'
    ]_vars

\* C12 (SpecVases): fragments persist until the clear at teardown: no step
\* of a session, in which the component stays mounted, makes the list of
\* shards shorter.
C12_ShardsPersist == [][ Len(shards') >= Len(shards) ]_vars

\* C13 (SpecTeardown): a frame updates the player only when movement is
\* enabled (pointer locked or touch control active), then updates the shards,
\* then draws once: the one draw shows the camera and the shards as the two
\* updates have left them, and a frame without movement enabled leaves the
\* player and the camera as they were.
C13_FrameOrder ==
  [][ lastOp'[1] = "animate" =>
        /\ rendered' = [camera |-> camera', shards |-> shards', calls |-> 1]
        /\ shards' = [i \in DOMAIN shards |->
                        IF shards[i].onGround THEN shards[i]
                        ELSE FlightStep(shards[i])]
        /\ (isPointerLocked \/ isTouchControlActive) => frames' = frames + 1
        /\ ~(isPointerLocked \/ isTouchControlActive) =>
             player' = player /\ camera' = camera /\ frames' = frames
    ]_vars

\* a frame with the pointer locked has moved the player and a shard in
\* flight, and the draw shows both where they are now
C13_DrewUpdatedFrame ==
  /\ lastOp = << "animate", TRUE >>
  /\ camera.y < sceneCameraHeight
  /\ Len(shards) > 0
  /\ ~shards[1].onGround
  /\ shards[1].vel[2] < shards[1].v0
  /\ rendered = [camera |-> camera, shards |-> shards, calls |-> 1]

\* C14 (SpecTeardown): once the component is unmounted no frame is requested
\* and no listener is attached.
C14_CleanStop == ~scene => (~frameRequested /\ listeners = {})

\* C15 (SpecTeardown): once the component is unmounted, with cleanupShards
\* called by the teardown, the list of shards is empty.
C15_ClearedAtTeardown == ~scene => shards = << >>

\* C16 (SpecVases): after every break and after every creation of the vases
\* the list handed to the outline pass holds every unbroken vase and no
\* broken one.
C16_OutlineCurrent ==
  /\ outline = vases
  /\ outline \cap brokenVasesSet = {}
  /\ \A v \in Vases : v \notin brokenVasesSet => v \in outline

\* a vase of the second generation has just been broken by a click
C16_BrokenAfterRecreation ==
  /\ lastOp[1] = "click"
  /\ brokenVasesCount = 2
  /\ brokenVasesSet = {1}
  /\ outline = Vases \ {1}

\* C17 (SpecVases): a click or a touch end breaks at most one vase, the one
\* whose hitbox the ray meets first, and a click without the pointer lock
\* breaks none.
C17_OneNearestBreak ==
  [][ lastOp'[1] \in {"click", "touchend"} =>
        LET ray == lastOp'[Len(lastOp')]
            OnRay(v) == v \in hitboxes
            live == SelectSeq(ray, OnRay)
            broken == brokenVasesSet' \ brokenVasesSet
        IN /\ Cardinality(broken) <= 1
           /\ broken # {} => (Len(live) > 0 /\ broken = {live[1]})
           /\ vases \ vases' = broken
           /\ hitboxes \ hitboxes' = broken
           /\ brokenVasesCount' = brokenVasesCount + Cardinality(broken)
           /\ (lastOp'[1] = "click" /\ ~isPointerLocked) =>
                (broken = {} /\ shards' = shards)
    ]_vars

\* a click along a ray through both vases broke the nearer one only
C17_NearerOfTwo ==
  /\ lastOp = << "click", << << 0, 0 >> >>, << 2, 1 >> >>
  /\ brokenVasesSet = {2}
  /\ hitboxes = Vases \ {2}
  /\ Len(shards) > 0

\* C18 (SpecLook): a mouse movement during a touch session changes neither
\* yaw nor pitch, and a mouse movement changes them only while the pointer
\* is locked.
C18_MouseGated ==
  [][ lastOp'[1] = "mousemove" =>
        /\ touch.active =>
             (player'.rotX = player.rotX /\ player'.rotY = player.rotY)
        /\ (player'.rotX # player.rotX \/ player'.rotY # player.rotY) =>
             isPointerLocked
        /\ (isPointerLocked /\ ~touch.active) =>
             player'.rotY = player.rotY - lastOp'[2] * MOUSE_SENSITIVITY
    ]_vars

\* the mouse was moved while a finger was down, and the view did not turn
C18_MouseDuringTouch ==
  /\ lastOp = << "mousemove", 200, 0 >>
  /\ touch.active
  /\ ~isPointerLocked
  /\ player.rotX = 0
  /\ player.rotY = 0

C20_PitchClamped ==
  /\ player.rotX >= -HALF_PI
  /\ player.rotX <= HALF_PI
  /\ player.rotZ = 0

\* a mouse movement that would have pitched past straight up was clamped
C20_LookedStraightUp ==
  /\ lastOp = << "mousemove", 0, -800 >>
  /\ player.rotX = HALF_PI

\* C21 (SpecHandles): called without a scene and a camera, each of
\* updatePlayerPosition, updateShards, createShards and handleVaseClick
\* returns and leaves the player, the camera, the shards and the vases as
\* they were.
C21_NullHandlesNoOp ==
  [][ ( /\ ~scene
        /\ lastOp'[1] \in {"updatePlayerPosition", "updateShards",
                            "createShards", "handleVaseClick"} ) =>
        /\ player' = player
        /\ camera' = camera
        /\ frames' = frames
        /\ shards' = shards
        /\ vases' = vases
        /\ hitboxes' = hitboxes
        /\ brokenVasesSet' = brokenVasesSet
        /\ brokenVasesCount' = brokenVasesCount
    ]_vars

\* updateShards was called after the unmount and left a shard in mid-flight
C21_FrozenInFlight ==
  /\ ~scene
  /\ lastOp = << "updateShards" >>
  /\ Len(shards) > 0
  /\ ~shards[1].onGround
  /\ shards[1].pos[2] > SHARD_GROUND

C23_TouchStartResetsFlags ==
  [][ (lastOp'[1] = "touchstart" /\ ~isPointerLocked) =>
        Flags(player') = << FALSE, FALSE, FALSE, FALSE >>
    ]_vars

\* C24 (Spec): an accepted touch start makes a joystick session exactly when
\* the joystick geometry has been computed and the start point lies inside
\* the circle, and a free session otherwise; while the session lasts its
\* class does not change.
C24_JoystickClass ==
  [][ /\ (lastOp'[1] = "touchstart" /\ lastOp'[3] = 1 /\ ~isPointerLocked) =>
           LET p == lastOp'[2]
           IN /\ touch'.active
              /\ touch'.isJoystick <=>
                   ( /\ joystickCenter # NULL
                     /\ joystickRadius > 0
                     /\ (p[1] - joystickCenter[1]) * (p[1] - joystickCenter[1])
                          + (p[2] - joystickCenter[2]) * (p[2] - joystickCenter[2])
                        < joystickRadius * joystickRadius )
      /\ (touch.active /\ lastOp'[1] \in {"touchmove", "geometry"}) =>
           (touch'.active /\ touch'.isJoystick = touch.isJoystick)
    ]_vars

\* a session that began on the joystick's place before the geometry was
\* computed is still a free session after the geometry has arrived
C24_FreeBeforeGeometry ==
  /\ lastOp[1] = "touchmove"
  /\ touch.active
  /\ ~touch.isJoystick
  /\ touch.initialPos = << 200, 690 >>
  /\ joystickCenter # NULL

\* C25 (Spec): a touch move of a free session sets no move-intent flag and
\* leaves the joystick vector zero, and it moves neither the player nor the
\* camera.
C25_FreeDragStands ==
  [][ (lastOp'[1] = "touchmove" /\ touch.active /\ ~touch.isJoystick) =>
        /\ joystickMoveVector' = << 0, 0 >>
        /\ \A i \in 1..4 : Flags(player')[i] => Flags(player)[i]
        /\ player'.position = player.position
        /\ camera' = camera
    ]_vars

\* a finger that went down in the free area was dragged far down the
\* screen: the touch counts as moved and nothing else happened
C25_DraggedDown ==
  /\ Len(lastOp) = 1
  /\ lastOp[1] = "touchmove"
  /\ touch.active
  /\ ~touch.isJoystick
  /\ touch.start = << 200, 690 >>
  /\ touch.initialPos = << 100, 100 >>
  /\ touch.moved
  /\ player.rotY = 0
  /\ Flags(player) = << FALSE, FALSE, FALSE, FALSE >>

\* C26 (Spec): whenever no touch session is active, the joystick move vector
\* is zero.
C26_IdleVectorZero ==
  ~touch.active => joystickMoveVector = << 0, 0 >>

\* C27 (Spec): a session whose touch moves took the finger more than the moved
\* threshold away from the point where it went down has its moved flag set,
\* and its touch end makes no hit-test.
C27_DisplacedNeverTaps ==
  [][ ( /\ lastOp'[1] = "touchend"
        /\ touch.active
        /\ session.maxDispSq > MOVED_THRESHOLD * MOVED_THRESHOLD )
      => ( touch.moved /\ lastOp'[4] = << >> )
    ]_vars

\* C28 (SpecMulti): while a session is active, the touch start or touch end
\* of a finger other than the one that began the session leaves the session
\* as it is, active and of the same kind, and makes no hit-test.
C28_OtherFingerIgnored ==
  [][ ( /\ touch.active
        /\ lastOp[1] = "finger"
        /\ lastOp[3] # fingers.owner
        /\ lastOp'[1] \in {"touchstart", "touchend"} )
      => ( /\ touch' = touch
           /\ lastOp'[1] = "touchend" => lastOp'[4] = << >> )
    ]_vars

\* C29 (SpecVases): the count the vase manager keeps and the number the
\* "Broken Vases" counter shows are both the number of vases broken since the
\* vases were created, the size of the broken set.
C29_CounterCountsBreaks ==
  /\ displayedBrokenVasesCount = Cardinality(brokenVasesSet)
  /\ brokenVasesCount = Cardinality(brokenVasesSet)

\* C30 (SpecSetup): while the component is mounted and its status is "ready"
\* the scene, camera and renderer handles are set; a render that finds
\* "ready" finds the handles; and setup has run at most once since the mount.
C30_ReadyHasHandles ==
  /\ (sceneSetup.effect /\ sceneSetup.initializationStatus = "ready") =>
       (scene /\ sceneSetup.renderer)
  /\ (lastOp[1] = "render" /\ lastOp[2] = "ready") => lastOp[3]
  /\ sceneSetup.setups <= 1

\* the second mount of the component has been set up and rendered as ready,
\* and its loop runs
C30_SecondMountReady ==
  /\ sceneSetup.mounts = 2
  /\ lastOp = << "render", "ready", TRUE >>
  /\ sceneSetup.setups = 1
  /\ frameRequested

====
